---- MODULE Spec2Model ----
(***************************************************************************)
(* A model of neuropythy/util/filemap.py: the PseudoDir virtual directory  *)
(* (backend classification, find, local_path, cache lifetime) and the      *)
(* FileMap (parse_instructions, _load, data_files, data_tree).             *)
(*                                                                         *)
(* The paths of the PseudoDir and of _load are sequences of tokens.  No    *)
(* token is a substring of a concatenation of other tokens, so prefix,     *)
(* suffix and substring tests on token sequences agree with the same tests *)
(* on the concatenated text.  The strings of an instruction structure are  *)
(* strings, read character by character.                                   *)
(*                                                                         *)
(* A dictionary keeps its entries in insertion order; a persistent map     *)
(* (pyrsistent.PMap, what pimms.persist makes of a dictionary) is a set of *)
(* entries and is iterated in hash order, which is any order.  Both are    *)
(* mappings to pimms.is_map.  A FileMap persists its instructions, its     *)
(* hierarchy and the result of the parse.                                  *)
(***************************************************************************)
EXTENDS Integers, Sequences, FiniteSets, TLC

VARIABLES
    \* ---- PseudoDir ----
    source_path,    \* PseudoDir.source_path, a token sequence
    cache_path,     \* PseudoDir.cache_path: NoPath or an explicit directory
    delete,         \* PseudoDir.delete: "True", "False" or "Ellipsis"
    isdir,          \* os.path.isdir(source_path)
    isurl,          \* urlopen(source_path) succeeds
    tarOpens,       \* what the tarball is to tarfile.open: an archive, missing, not an archive
    srcFiles,       \* the paths present in the source (directory, URL tree or archive)
    cacheFiles,     \* the paths present under the cache directory in use
    pathData,       \* the memoized value of PseudoDir._path_data
    tmpdirs,        \* the temporary directories allocated so far, with their delete flag
    fetches,        \* number of completed PseudoDir._url_get downloads
    extracts,       \* number of completed tarfile extractions
    classified,     \* the outcome of the latest evaluation of _path_data, errors included
    calls,          \* the find / local_path calls made so far, oldest first
    exited,         \* TRUE once the process has exited and the exit handlers have run
    deleted,        \* the cache directories removed by the exit handlers
    \* ---- FileMap.parse_instructions ----
    instructions,   \* the instruction structure given to parse_instructions
    hierarchy,      \* the hierarchy arguments the structure is parsed with
    parsed,         \* the result of parse_instructions for each of them, once called;
                    \* for a FileMap, the value of _parsed_instructions
    \* ---- FileMap._load called on its own ----
    loadArgs,       \* the arguments and the environment of one call of FileMap._load
    loadResult,     \* the outcome of that call, once made
    \* ---- one FileMap instance ----
    fmPathIsDir,    \* os.path.isdir(path) for the path given to the constructor
    fmFiles,        \* the declared files: file name -> its instruction and environment
    constructed,    \* the outcome of FileMap(path, instructions, ...), once called
    dataFilesMemo,  \* the memoized value of filemap.data_files
    leafMemo,       \* the memoized values of the entries of data_files
    loads,          \* file name -> number of times its loader has been invoked
    accesses        \* the leaf accesses made so far, oldest first

dirVars == <<source_path, cache_path, delete, isdir, isurl, tarOpens, srcFiles,
             cacheFiles, pathData, tmpdirs, fetches, extracts, classified, calls, exited,
             deleted>>

parseVars == <<instructions, hierarchy, parsed>>

loadVars == <<loadArgs, loadResult>>

mapVars == <<fmPathIsDir, fmFiles, constructed, dataFilesMemo, leafMemo, loads, accesses>>

vars == <<dirVars, parseVars, loadVars, mapVars>>

(***************************************************************************)
(* Bounds                                                                  *)
(***************************************************************************)
MaxSourceLen == 3      \* longest source specification, in tokens
MaxCalls == 3          \* longest sequence of find / local_path calls
MaxTmp == 2            \* most temporary directories allocated
MaxEntries == 2        \* most entries of a directory listing
MaxAccesses == 2       \* longest sequence of leaf accesses of one FileMap

(***************************************************************************)
(* Strings                                                                 *)
(***************************************************************************)
SourceTokens == {"s3", "S3", ":", "d", ".tar", ".gz", ".bz2", ".lzma"}
RelPaths == {<<"f">>, <<"g">>}
NoPath == <<"<None>">>
ExplicitCache == <<"cache">>

RECURSIVE SeqsUpTo(_, _)
SeqsUpTo(S, n) ==
    IF n = 0 THEN {<<>>}
    ELSE LET shorter == SeqsUpTo(S, n - 1)
         IN  shorter \cup {Append(s, t) : s \in {q \in shorter : Len(q) = n - 1}, t \in S}

StartsWith(s, p) == Len(p) <= Len(s) /\ SubSeq(s, 1, Len(p)) = p
EndsWith(s, p) == Len(p) <= Len(s) /\ SubSeq(s, Len(s) - Len(p) + 1, Len(s)) = p
FindAt(s, p, i) == i + Len(p) - 1 <= Len(s) /\ SubSeq(s, i, i + Len(p) - 1) = p
Contains(s, p) == \E i \in 1..(Len(s) + 1) : FindAt(s, p, i)
LowerTok(t) == IF t = "S3" THEN "s3" ELSE t
Lower(s) == [i \in 1..Len(s) |-> LowerTok(s[i])]

\* str.split(sep): the pieces between the non-overlapping occurrences of sep, left to right
RECURSIVE Split(_, _)
Split(s, sep) ==
    IF ~Contains(s, sep) THEN <<s>>
    ELSE LET i == CHOOSE k \in 1..Len(s) : FindAt(s, sep, k) /\ \A j \in 1..(k - 1) : ~FindAt(s, sep, j)
         IN  <<SubSeq(s, 1, i - 1)>> \o Split(SubSeq(s, i + Len(sep), Len(s)), sep)

\* sep.join(parts)
RECURSIVE JoinSep(_, _)
JoinSep(parts, sep) ==
    IF Len(parts) = 0 THEN <<>>
    ELSE IF Len(parts) = 1 THEN parts[1]
    ELSE parts[1] \o sep \o JoinSep(Tail(parts), sep)

\* os.path.join / posixpath.join of two components
PathJoin(a, b) ==
    IF StartsWith(b, <<"/">>) THEN b
    ELSE IF a = <<>> \/ EndsWith(a, <<"/">>) THEN a \o b
    ELSE a \o <<"/">> \o b

(***************************************************************************)
(* PseudoDir._path_data                                                    *)
(***************************************************************************)
\* PseudoDir._tarball_endings, in its declared order
TarballEndings == << <<".tar">>, <<".tar", ".gz">>, <<".tar", ".bz2">>, <<".tar", ".lzma">> >>

\* next((q for s in _tarball_endings for q in [s+':'] if q in source_path), None)
MarkerOf(sp) ==
    LET hits == {i \in 1..Len(TarballEndings) : Contains(sp, TarballEndings[i] \o <<":">>)}
    IN  IF hits = {} THEN <<>>
        ELSE TarballEndings[CHOOSE i \in hits : \A j \in hits : i <= j] \o <<":">>

\* next((q for q in _tarball_endings if source_path.endswith(q)), None)
EndingOf(sp) ==
    LET hits == {i \in 1..Len(TarballEndings) : EndsWith(sp, TarballEndings[i])}
    IN  IF hits = {} THEN <<>>
        ELSE TarballEndings[CHOOSE i \in hits : \A j \in hits : i <= j]

NoCache == [kind |-> "none", id |-> 0]
ExplicitDir == [kind |-> "explicit", id |-> 0]
TmpDirId(n) == [kind |-> "tmp", id |-> n]

\* core.tmpdir(delete=...): a fresh temporary directory, removed at exit when delete holds
tmpdir(dirs, del) == Append(dirs, [delete |-> del])

PathDataError(e, dirs) ==
    [exc |-> e, kind |-> "", tb |-> <<>>, ip |-> <<>>, cache |-> NoCache, dirs |-> dirs]

\* The value of _path_data for the given parameters and environment, with the
\* temporary directories that exist once it has been computed.
PathDataOf_TarBeforeUrl(sp, cp, del, isd, isu, dirs) ==
    IF isd THEN
        [exc |-> "", kind |-> "dir", tb |-> <<>>, ip |-> <<>>, cache |-> NoCache, dirs |-> dirs]
    ELSE
        LET dirs2 == IF cp = NoPath
                     THEN tmpdir(dirs, IF del = "Ellipsis" THEN TRUE ELSE del = "True")
                     ELSE dirs
            cache == IF cp = NoPath THEN TmpDirId(Len(dirs2)) ELSE ExplicitDir
            ss == MarkerOf(sp)
            spl == Split(sp, ss)
        IN  IF StartsWith(Lower(sp), <<"s3", ":">>) THEN PathDataError("ValueError:S3", dirs2)
            ELSE IF ss # <<>> THEN
                [exc |-> "", kind |-> "tar", tb |-> spl[1] \o SubSeq(ss, 1, Len(ss) - 1),
                 ip |-> JoinSep(Tail(spl), ss), cache |-> cache, dirs |-> dirs2]
            ELSE IF EndingOf(sp) # <<>> THEN
                [exc |-> "", kind |-> "tar", tb |-> sp, ip |-> <<>>, cache |-> cache, dirs |-> dirs2]
            ELSE IF isu THEN
                [exc |-> "", kind |-> "url", tb |-> <<>>, ip |-> <<>>, cache |-> cache, dirs |-> dirs2]
            ELSE PathDataError("ValueError:source", dirs2)

PathDataOf(sp, cp, del, isd, isu, dirs) ==
    IF isd THEN
        [exc |-> "", kind |-> "dir", tb |-> <<>>, ip |-> <<>>, cache |-> NoCache, dirs |-> dirs]
    ELSE
        LET dirs2 == IF cp = NoPath
                     THEN tmpdir(dirs, IF del = "Ellipsis" THEN TRUE ELSE del = "True")
                     ELSE dirs
            cache == IF cp = NoPath THEN TmpDirId(Len(dirs2)) ELSE ExplicitDir
            ss == MarkerOf(sp)
            spl == Split(sp, ss)
        IN  IF StartsWith(Lower(sp), <<"s3", ":">>) THEN PathDataError("ValueError:S3", dirs2)
            ELSE IF isu THEN
                [exc |-> "", kind |-> "url", tb |-> <<>>, ip |-> <<>>, cache |-> cache, dirs |-> dirs2]
            ELSE IF ss # <<>> THEN
                [exc |-> "", kind |-> "tar", tb |-> spl[1] \o SubSeq(ss, 1, Len(ss) - 1),
                 ip |-> JoinSep(Tail(spl), ss), cache |-> cache, dirs |-> dirs2]
            ELSE IF EndingOf(sp) # <<>> THEN
                [exc |-> "", kind |-> "tar", tb |-> sp, ip |-> <<>>, cache |-> cache, dirs |-> dirs2]
            ELSE PathDataError("ValueError:source", dirs2)

(***************************************************************************)
(* PseudoDir: the memoized _path_data, find, local_path, process exit      *)
(***************************************************************************)
NotComputed == [exc |-> "unset", kind |-> "", tb |-> <<>>, ip |-> <<>>, cache |-> NoCache]

Forget(pd) == [exc |-> pd.exc, kind |-> pd.kind, tb |-> pd.tb, ip |-> pd.ip, cache |-> pd.cache]

\* self._path_data: the memoized value when there is one, else a fresh evaluation
PathDataNow ==
    IF pathData # NotComputed
    THEN [exc |-> pathData.exc, kind |-> pathData.kind, tb |-> pathData.tb, ip |-> pathData.ip,
          cache |-> pathData.cache, dirs |-> tmpdirs]
    ELSE PathDataOf(source_path, cache_path, delete, isdir, isurl, tmpdirs)

\* a lazy value is kept once computed; an evaluation that raises leaves nothing behind
Memoized(pd) == IF pd.exc = "" THEN Forget(pd) ELSE NotComputed

CacheRoot(c) == IF c.kind = "explicit" THEN cache_path ELSE <<"tmp", ToString(c.id)>>

\* the path a backend looks up for the relative path p: the archive prefix is joined in
InnerPath(pd, p) == IF pd.kind = "tar" THEN PathJoin(pd.ip, p) ELSE p

\* names bound at module level, and the attributes of os.path used by the module
ModuleGlobals ==
    {"os", "warnings", "six", "tarfile", "atexit", "shutil", "pimms", "np", "pyr", "urljoin",
     "urllib", "library_path", "curry", "ObjectWithMetaData", "AutoDict", "data_struct",
     "tmpdir", "PseudoDir", "FileMap", "file_map"}
OsPathAttrs == {"join", "exists", "isdir", "dirname", "expanduser", "expandvars", "abspath"}

Returned(path) == [exc |-> "", isNone |-> FALSE, path |-> path]
ReturnedNone == [exc |-> "", isNone |-> TRUE, path |-> <<>>]
Raised(e) == [exc |-> e, isNone |-> FALSE, path |-> <<>>]

\* tarfile.open(<tarball>, 'r'): the exception it raises, "" when the archive opens.
\* A missing file is an IOError (FileNotFoundError), a file that is not an archive a
\* tarfile.ReadError, which is not an IOError.
TarStates == {"opens", "missing", "not an archive"}
TarfileOpen(state) ==
    CASE state = "opens" -> ""
      [] state = "missing" -> "IOError"
      [] state = "not an archive" -> "ReadError"

\* the 'exists' entry of _path_data applied to path: TRUE, FALSE or an exception
ExistsFn(pd, path, src, cached) ==
    CASE pd.kind = "dir" -> [exc |-> "", val |-> path \in src]
      [] pd.kind = "url" ->
            IF path \in cached THEN [exc |-> "", val |-> TRUE]
            ELSE IF "hoin" \notin OsPathAttrs THEN [exc |-> "AttributeError", val |-> FALSE]
            ELSE [exc |-> "", val |-> path \in src]
      [] pd.kind = "tar" ->
            IF PathJoin(pd.ip, path) \in cached THEN [exc |-> "", val |-> TRUE]
            ELSE IF TarfileOpen(tarOpens) # "" THEN [exc |-> TarfileOpen(tarOpens), val |-> FALSE]
            ELSE [exc |-> "", val |-> path \in src]

\* PseudoDir.find(path)
FindOf(pd, path, src, cached) ==
    IF pd.exc # "" THEN Raised(pd.exc)
    ELSE LET e == ExistsFn(pd, path, src, cached)
         IN  IF e.exc # "" THEN Raised(e.exc)
             ELSE IF e.val THEN Returned(path) ELSE ReturnedNone

\* the 'getpath' entry of _path_data applied to path: the call's outcome, the cache
\* contents afterwards and the number of downloads and extractions it completed
GetPathFn(pd, path, src, cached) ==
    CASE pd.kind = "dir" ->
            [res |-> Returned(PathJoin(source_path, path)), cached |-> cached, fetch |-> 0, extract |-> 0]
      [] pd.kind = "url" ->
            IF path \in cached
            THEN [res |-> Returned(PathJoin(CacheRoot(pd.cache), path)), cached |-> cached,
                  fetch |-> 0, extract |-> 0]
            ELSE IF "PsudoDir" \notin ModuleGlobals
            THEN [res |-> Raised("NameError"), cached |-> cached, fetch |-> 0, extract |-> 0]
            ELSE IF pd.cache.kind = "tmp"
            THEN [res |-> Raised("OSError"), cached |-> cached, fetch |-> 0, extract |-> 0]
            ELSE IF path \notin src
            THEN [res |-> Raised("HTTPError"), cached |-> cached, fetch |-> 0, extract |-> 0]
            ELSE [res |-> Returned(PathJoin(CacheRoot(pd.cache), path)),
                  cached |-> cached \cup {path}, fetch |-> 1, extract |-> 0]
      [] pd.kind = "tar" ->
            LET inner == PathJoin(pd.ip, path)
            IN  IF inner \in cached
                THEN [res |-> Returned(PathJoin(CacheRoot(pd.cache), inner)), cached |-> cached,
                      fetch |-> 0, extract |-> 0]
                ELSE IF TarfileOpen(tarOpens) # ""
                THEN [res |-> Raised(TarfileOpen(tarOpens)), cached |-> cached, fetch |-> 0,
                      extract |-> 0]
                ELSE IF path \notin src
                THEN [res |-> Raised("KeyError"), cached |-> cached, fetch |-> 0, extract |-> 0]
                ELSE [res |-> Returned(PathJoin(CacheRoot(pd.cache), inner)),
                      cached |-> cached \cup {inner}, fetch |-> 0, extract |-> 1]

\* PseudoDir.local_path(path)
LocalPathOf(pd, path, src, cached) ==
    IF pd.exc # ""
    THEN [res |-> Raised(pd.exc), cached |-> cached, fetch |-> 0, extract |-> 0]
    ELSE GetPathFn(pd, path, src, cached)

Call(op, path, res, work) == [op |-> op, path |-> path, res |-> res, work |-> work]

CanEvaluate == pathData # NotComputed \/ Len(tmpdirs) < MaxTmp

\* pdir.actual_cache_path (or repr(pdir)): forces _path_data
AccessPathData ==
    /\ ~exited
    /\ pathData = NotComputed
    /\ CanEvaluate
    /\ LET pd == PathDataNow
       IN  /\ pathData' = Memoized(pd)
           /\ classified' = Forget(pd)
           /\ tmpdirs' = pd.dirs
    /\ UNCHANGED <<source_path, cache_path, delete, isdir, isurl, tarOpens, srcFiles,
                   cacheFiles, fetches, extracts, calls, exited, deleted>>

\* pdir.find(path)
Find(path) ==
    /\ ~exited
    /\ Len(calls) < MaxCalls
    /\ CanEvaluate
    /\ LET pd == PathDataNow
           res == FindOf(pd, path, srcFiles, cacheFiles)
       IN  /\ pathData' = Memoized(pd)
           /\ classified' = Forget(pd)
           /\ tmpdirs' = pd.dirs
           /\ calls' = Append(calls, Call("find", path, res, 0))
    /\ UNCHANGED <<source_path, cache_path, delete, isdir, isurl, tarOpens, srcFiles,
                   cacheFiles, fetches, extracts, exited, deleted>>

\* pdir.local_path(path)
LocalPath(path) ==
    /\ ~exited
    /\ Len(calls) < MaxCalls
    /\ CanEvaluate
    /\ LET pd == PathDataNow
           out == LocalPathOf(pd, path, srcFiles, cacheFiles)
       IN  /\ pathData' = Memoized(pd)
           /\ classified' = Forget(pd)
           /\ tmpdirs' = pd.dirs
           /\ cacheFiles' = out.cached
           /\ fetches' = fetches + out.fetch
           /\ extracts' = extracts + out.extract
           /\ calls' = Append(calls, Call("local_path", path, out.res, out.fetch + out.extract))
    /\ UNCHANGED <<source_path, cache_path, delete, isdir, isurl, tarOpens, srcFiles, exited,
                   deleted>>

\* the directories removed by the exit handlers registered so far
DeletedAtExit == {TmpDirId(i) : i \in {j \in 1..Len(tmpdirs) : tmpdirs[j].delete}}

\* the interpreter exits: the registered exit handlers run, and a temporary directory
\* that is removed goes with what it holds
Exit ==
    /\ ~exited
    /\ exited' = TRUE
    /\ deleted' = DeletedAtExit
    /\ cacheFiles' = IF pathData.cache \in DeletedAtExit THEN {} ELSE cacheFiles
    /\ UNCHANGED <<source_path, cache_path, delete, isdir, isurl, tarOpens, srcFiles,
                   pathData, tmpdirs, fetches, extracts, classified, calls>>

\* the state of the parts a specification leaves alone
NotParsed ==
    [err |-> "unset", data_files |-> <<>>, data_tree |-> <<>>, dirstack |-> <<>>]
ParseIdle ==
    /\ instructions = <<>>
    /\ hierarchy = <<>>
    /\ parsed = <<>>
LoadIdle ==
    /\ loadArgs = <<>>
    /\ loadResult = <<>>
MapIdle ==
    /\ fmPathIsDir = FALSE
    /\ fmFiles = <<>>
    /\ constructed = ""
    /\ dataFilesMemo = ""
    /\ leafMemo = <<>>
    /\ loads = <<>>
    /\ accesses = <<>>
DirIdle ==
    /\ source_path = <<>>
    /\ cache_path = <<>>
    /\ delete = ""
    /\ isdir = FALSE
    /\ isurl = FALSE
    /\ tarOpens = ""
    /\ srcFiles = {}
    /\ cacheFiles = {}
    /\ pathData = <<>>
    /\ classified = <<>>
    /\ tmpdirs = <<>>
    /\ fetches = 0
    /\ extracts = 0
    /\ calls = <<>>
    /\ exited = FALSE
    /\ deleted = {}

(***************************************************************************)
(* Specifications of the PseudoDir                                         *)
(***************************************************************************)
DeleteValues == {"True", "False", "Ellipsis"}

\* one source specification of each shape
DirSources == { <<"d">>, <<"d", ".tar">>, <<"d", ".tar", ".gz", ":", "d">>, <<"s3", ":", "d">> }

\* the classification of a source, whatever temporary directories exist
ShapeOf(sp, isd, isu) == PathDataOf(sp, ExplicitCache, "False", isd, isu, <<>>)

InitPseudoDir(sources, paths) ==
    /\ source_path \in sources
    /\ cache_path \in {NoPath, ExplicitCache}
    /\ delete \in DeleteValues
    /\ isdir \in BOOLEAN
    /\ isurl \in BOOLEAN
    /\ tarOpens \in TarStates
    /\ srcFiles \in SUBSET paths
    /\ \E present \in SUBSET paths :
          /\ (cache_path = NoPath \/ isdir) => present = {}
          /\ cacheFiles = {InnerPath(ShapeOf(source_path, isdir, isurl), p) : p \in present}
    /\ pathData = NotComputed
    /\ classified = NotComputed
    /\ tmpdirs = <<>>
    /\ fetches = 0
    /\ extracts = 0
    /\ calls = <<>>
    /\ exited = FALSE
    /\ deleted = {}

InitDir == InitPseudoDir(DirSources, RelPaths) /\ ParseIdle /\ LoadIdle /\ MapIdle

NextDir ==
    /\ \/ AccessPathData
       \/ \E p \in RelPaths : Find(p)
       \/ \E p \in RelPaths : LocalPath(p)
       \/ Exit
    /\ UNCHANGED <<parseVars, loadVars, mapVars>>

SpecDir == InitDir /\ [][NextDir]_vars

InitClassify == InitPseudoDir(SeqsUpTo(SourceTokens, MaxSourceLen) \ {<<>>}, {}) /\ ParseIdle
                /\ LoadIdle /\ MapIdle

NextClassify ==
    /\ \/ AccessPathData
       \/ Exit
    /\ UNCHANGED <<parseVars, loadVars, mapVars>>

SpecClassify == InitClassify /\ [][NextClassify]_vars

(***************************************************************************)
(* Properties of the PseudoDir                                             *)
(***************************************************************************)
Found(c) == c.res.exc = "" /\ ~c.res.isNone
Succeeded(c) == c.res.exc = ""

\* C5: for every backend kind and every relative path, find(path) yields a path
\* (exists is true) iff the local_path(path) call that follows it succeeds without
\* raising, whether or not the path is already in the cache directory.
C5_ExistsIffMaterializes ==
    \A i \in 1..(Len(calls) - 1) :
        (/\ calls[i].op = "find"
         /\ calls[i + 1].op = "local_path"
         /\ calls[i + 1].path = calls[i].path)
        => (Found(calls[i]) <=> Succeeded(calls[i + 1]))

\* the source holds the path and can be read: a materialization of it is possible
Materializable(path) ==
    /\ pathData.exc = ""
    /\ path \in srcFiles
    /\ pathData.kind = "tar" => tarOpens = "opens"

\* C6: local_path is idempotent for every backend kind: two calls with the same
\* relative path of an unchanged source both yield the same local path, with at most
\* one download or extraction in total, none of it in the second call.
C6_MaterializeIdempotent ==
    \A i \in 1..Len(calls) : \A j \in (i + 1)..Len(calls) :
        (/\ calls[i].op = "local_path"
         /\ calls[j].op = "local_path"
         /\ calls[j].path = calls[i].path
         /\ Materializable(calls[i].path))
        => /\ Succeeded(calls[i])
           /\ calls[j].res = calls[i].res
           /\ calls[i].work <= 1
           /\ calls[j].work = 0

Endings == {TarballEndings[i] : i \in 1..Len(TarballEndings)}
IsS3(sp) == Len(sp) >= 2 /\ sp[1] \in {"s3", "S3"} /\ sp[2] = ":"
HasMarker(sp) == \E e \in Endings : Contains(sp, e \o <<":">>)
HasEnding(sp) == \E e \in Endings : EndsWith(sp, e)

\* C7: the backend of a source specification is the first matching case of: existing
\* local directory; reachable URL; an archive extension followed by ':' (the archive and
\* the prefix inside it); a specification ending in an archive extension (no prefix).
\* A specification matching none fails with the invalid-source error, and an 's3:'
\* specification that is not a local directory fails with its own error.
C7_ClassificationPriority ==
    classified # NotComputed =>
        LET sp == source_path
            c == classified
        IN  /\ isdir => c.exc = "" /\ c.kind = "dir"
            /\ (~isdir /\ IsS3(sp)) => c.exc = "ValueError:S3"
            /\ (~isdir /\ ~IsS3(sp) /\ isurl) => c.exc = "" /\ c.kind = "url"
            /\ (~isdir /\ ~IsS3(sp) /\ ~isurl /\ HasMarker(sp)) =>
                    /\ c.exc = "" /\ c.kind = "tar"
                    /\ c.tb \o <<":">> \o c.ip = sp
                    /\ HasEnding(c.tb)
            /\ (~isdir /\ ~IsS3(sp) /\ ~isurl /\ ~HasMarker(sp) /\ HasEnding(sp)) =>
                    /\ c.exc = "" /\ c.kind = "tar"
                    /\ c.tb = sp /\ c.ip = <<>>
            /\ (~isdir /\ ~IsS3(sp) /\ ~isurl /\ ~HasMarker(sp) /\ ~HasEnding(sp)) =>
                    c.exc = "ValueError:source"

\* a reachable URL that also carries an archive marker has been classified as a URL
C7_Witness ==
    /\ classified # NotComputed
    /\ ~isdir /\ isurl /\ ~IsS3(source_path) /\ HasMarker(source_path)
    /\ classified.kind = "url"

\* C8: after exit, a temporary cache allocated because none was supplied is deleted
\* unless delete is False; a cache path supplied by the caller is deleted exactly when
\* delete is True; a local directory allocates no cache at all.
C8_CacheDeletionPolicy ==
    (exited /\ pathData.exc = "") =>
        /\ pathData.kind = "dir" => (pathData.cache = NoCache /\ tmpdirs = <<>>)
        /\ (pathData.kind # "dir" /\ cache_path = NoPath) =>
                /\ pathData.cache.kind = "tmp"
                /\ pathData.cache \in deleted <=> delete # "False"
        /\ (pathData.kind # "dir" /\ cache_path # NoPath) =>
                /\ pathData.cache = ExplicitDir
                /\ pathData.cache \in deleted <=> delete = "True"

(***************************************************************************)
(* FileMap.parse_instructions                                              *)
(*                                                                         *)
(* A value of the program is a node: a string, a number (a natural), a     *)
(* function, a list, a tuple, a dictionary (its entries in insertion       *)
(* order, which is the order it is iterated in) or a persistent map (the   *)
(* set of its entries; it is iterated in the order of the hashes of its    *)
(* keys, which is no property of the value).  A string is a string of the  *)
(* model: its characters are read with SubSeq.  The data tree is the       *)
(* dictionary the parse builds; a file record in it is a persistent map    *)
(* made of the instruction of the file.  The values of a record are the    *)
(* objects the instruction holds, so while the parse runs a record is a    *)
(* reference to its instruction, kept in 'heap'.                           *)
(***************************************************************************)
\* the one member of a set of one member: an expression e that uses a value v in
\* several places is written Only({e : x \in {v}}), x standing for v
Only(S) == CHOOSE x \in S : TRUE

Node(t, s, n, fields, items, entries) ==
    [t |-> t, s |-> s, n |-> n, fields |-> fields, items |-> items, entries |-> entries]
\* a dictionary: the sequence of its <<key, value>> entries
MapNode(fields) == Node("map", "", 0, fields, <<>>, {})
StrNode(name) == Node("str", name, 0, <<>>, <<>>, {})
ListNode(items) == Node("list", "", 0, <<>>, items, {})
TupleNode(items) == Node("tuple", "", 0, <<>>, items, {})
NumberNode(n) == Node("num", "", n, <<>>, <<>>, {})
FunctionNode(name) == Node("fn", name, 0, <<>>, <<>>, {})
\* a persistent map (pyrsistent PMap): the set of its <<key, value>> entries
PmapNode(entries) == Node("pmap", "", 0, <<>>, <<>>, entries)
\* the record of the file stored as heap[id], under the file name flnm
RecordRef(id, flnm) == Node("rec", flnm, id, <<>>, <<>>, {})
\* a value that is neither a mapping, a string, a list nor a tuple
NumNode == NumberNode(5)

known_filekeys == {"load", "filt", "when", "then", "miss"}

\* pimms.is_map(x)
is_map(node) == node.t \in {"map", "pmap"}

FieldKeys(fields) == {fields[i][1] : i \in 1..Len(fields)}
FieldIndex(fields, k) == CHOOSE i \in 1..Len(fields) : fields[i][1] = k
FieldGet(fields, k) == fields[FieldIndex(fields, k)][2]

\* the entries of a mapping as a set, its keys, and m[k] for a key it has
EntrySet(m) == IF m.t = "map" THEN {m.fields[i] : i \in 1..Len(m.fields)} ELSE m.entries
KeysOf(m) == {e[1] : e \in EntrySet(m)}
ValueOf(m, k) == (CHOOSE e \in EntrySet(m) : e[1] = k)[2]

\* d[k] = v on the entries of a dictionary: a key already present keeps its place
SetField(fields, k, v) ==
    IF k \in FieldKeys(fields)
    THEN [i \in 1..Len(fields) |-> IF fields[i][1] = k THEN <<k, v>> ELSE fields[i]]
    ELSE Append(fields, <<k, v>>)

\* m.set(k, v) on the entries of a persistent map
PmapSet(entries, k, v) == {e \in entries : e[1] # k} \cup {<<k, v>>}

\* the entries of a dictionary whose keys and values are strings
StrFields(pairs) == [i \in 1..Len(pairs) |-> <<StrNode(pairs[i][1]), StrNode(pairs[i][2])>>]

EmptyDict == MapNode(<<>>)
\* the file record pyr.pmap(inst).set('_relpath', flnm) of a mapping
LeafNode(inst, flnm) ==
    PmapNode(PmapSet(EntrySet(inst), StrNode("_relpath"), StrNode(flnm)))
EmptyTree == EmptyDict

\* hashable as a dictionary key: a persistent map is hashed as the set of its entries
RECURSIVE Hashable(_)
Hashable(node) ==
    CASE node.t \in {"str", "num", "fn"} -> TRUE
      [] node.t \in {"map", "list"} -> FALSE
      [] node.t = "tuple" -> \A i \in 1..Len(node.items) : Hashable(node.items[i])
      [] node.t = "pmap" -> \A e \in node.entries : Hashable(e[2])
      \* a reference to a record is held by dictionaries only and is never taken for a key
      [] node.t = "rec" -> FALSE

\* the orders a persistent map with these entries can be iterated in: the order of the
\* hashes of its keys, which for strings changes from one run to the next; every order
\* is taken for possible
RECURSIVE Orders(_)
Orders(entries) ==
    IF entries = {} THEN {<<>>}
    ELSE UNION {{<<e>> \o o : o \in Orders(entries \ {e})} : e \in entries}

\* six.iteritems(d), as the orders the entries can come in: one for a dictionary; no
\* order at all for a value that has no items()
ItemsOf(d) ==
    CASE d.t = "map" -> {d.fields}
      [] d.t = "pmap" -> Orders(d.entries)
      [] OTHER -> {}

\* "a == b": two mappings, dictionaries or persistent maps, are equal when they have
\* the same keys with equal values, whatever the order; two lists, or two tuples, when
\* their members are equal one by one; a list is not equal to a tuple
RECURSIVE Equal(_, _)
Equal(a, b) ==
    CASE is_map(a) /\ is_map(b) ->
            /\ KeysOf(a) = KeysOf(b)
            /\ \A k \in KeysOf(a) : Equal(ValueOf(a, k), ValueOf(b, k))
      [] a.t \in {"list", "tuple"} /\ a.t = b.t ->
            /\ Len(a.items) = Len(b.items)
            /\ \A i \in 1..Len(a.items) : Equal(a.items[i], b.items[i])
      [] OTHER -> a = b

\* "h in inst": "yes", "no", or the exception.  'in' is the key test on a mapping, the
\* substring test on a string, membership on a list or a tuple (a member equal to h),
\* and a TypeError on a number or a function
In(h, inst) ==
    CASE is_map(inst) ->
            IF ~Hashable(h) THEN "TypeError"
            ELSE IF h \in KeysOf(inst) THEN "yes" ELSE "no"
      [] inst.t = "str" ->
            IF h.t # "str" THEN "TypeError"
            ELSE IF Contains(inst.s, h.s) THEN "yes" ELSE "no"
      [] inst.t \in {"list", "tuple"} ->
            IF \E i \in 1..Len(inst.items) : Equal(inst.items[i], h) THEN "yes" ELSE "no"
      [] OTHER -> "TypeError"

\* "inst[h]"
GetItem(inst, h) ==
    CASE is_map(inst) ->
            IF ~Hashable(h) THEN [err |-> "TypeError", val |-> h]
            ELSE IF h \notin KeysOf(inst) THEN [err |-> "KeyError", val |-> h]
            ELSE [err |-> "", val |-> ValueOf(inst, h)]
      [] inst.t \in {"list", "tuple"} ->
            IF h.t # "num" THEN [err |-> "TypeError", val |-> h]
            ELSE IF h.n >= Len(inst.items) THEN [err |-> "IndexError", val |-> h]
            ELSE [err |-> "", val |-> inst.items[h.n + 1]]
      [] inst.t = "str" ->
            IF h.t # "num" THEN [err |-> "TypeError", val |-> h]
            ELSE IF h.n >= Len(inst.s) THEN [err |-> "IndexError", val |-> h]
            ELSE [err |-> "", val |-> StrNode(SubSeq(inst.s, h.n + 1, h.n + 1))]
      [] OTHER -> [err |-> "TypeError", val |-> h]

\* A path leads from a value to a value it holds: a sequence of steps, each the key of
\* a mapping or the index of a list or a tuple.  ValueAt is the value a path leads to,
\* ReplaceAt the value with the one the path leads to replaced.
RECURSIVE ValueAt(_, _)
ValueAt(node, path) ==
    IF path = <<>> THEN node
    ELSE IF is_map(node) THEN ValueAt(ValueOf(node, Head(path)), Tail(path))
    ELSE ValueAt(node.items[Head(path).n + 1], Tail(path))

RECURSIVE ReplaceAt(_, _, _)
ReplaceAt(node, path, new) ==
    IF path = <<>> THEN new
    ELSE CASE node.t = "map" ->
                [node EXCEPT !.fields =
                    [i \in 1..Len(node.fields) |->
                        IF node.fields[i][1] = Head(path)
                        THEN <<Head(path), ReplaceAt(node.fields[i][2], Tail(path), new)>>
                        ELSE node.fields[i]]]
           [] node.t = "pmap" ->
                [node EXCEPT !.entries =
                    {IF e[1] = Head(path)
                     THEN <<Head(path), ReplaceAt(e[2], Tail(path), new)>>
                     ELSE e : e \in node.entries}]
           [] OTHER ->
                [node EXCEPT !.items[Head(path).n + 1] = ReplaceAt(@, Tail(path), new)]

\* an entry of the persistent map made of an instruction: 'at' is the path to the value
\* in the instruction, <<>> for a value that is no part of it (a key, a character)
Entry(k, v, at) == [key |-> k, val |-> v, at |-> at]
EntryKeys(entries) == {e.key : e \in entries}
EntryOf(entries, k) == CHOOSE e \in entries : e.key = k
SetEntry(entries, e) == {x \in entries : x.key # e.key} \cup {e}

\* the (key, value) pairs dict() can make of the j-th member of a list: the two keys of
\* a mapping in the order they are iterated in, the two members of a list or a tuple,
\* the two characters of a string
PairOf(e, j) ==
    CASE e.t \in {"num", "fn"} -> {[err |-> "TypeError", entry |-> <<>>]}
      [] e.t = "map" ->
            IF Len(e.fields) # 2 THEN {[err |-> "ValueError", entry |-> <<>>]}
            ELSE {[err |-> "", entry |-> Entry(e.fields[1][1], e.fields[2][1], <<>>)]}
      [] e.t = "pmap" ->
            IF Cardinality(e.entries) # 2 THEN {[err |-> "ValueError", entry |-> <<>>]}
            ELSE {[err |-> "", entry |-> Entry(o[1][1], o[2][1], <<>>)] : o \in Orders(e.entries)}
      [] e.t = "str" ->
            IF Len(e.s) # 2 THEN {[err |-> "ValueError", entry |-> <<>>]}
            ELSE {[err |-> "",
                   entry |-> Entry(StrNode(SubSeq(e.s, 1, 1)), StrNode(SubSeq(e.s, 2, 2)), <<>>)]}
      [] e.t \in {"list", "tuple"} ->
            IF Len(e.items) # 2 THEN {[err |-> "ValueError", entry |-> <<>>]}
            ELSE IF ~Hashable(e.items[1]) THEN {[err |-> "TypeError", entry |-> <<>>]}
            ELSE {[err |-> "",
                   entry |-> Entry(e.items[1], e.items[2], <<NumberNode(j - 1), NumberNode(1)>>)]}

\* dict(items): the members from the j-th on, added to the entries made so far
RECURSIVE DictOfItems(_, _, _)
DictOfItems(items, j, entries) ==
    IF j > Len(items) THEN {[err |-> "", entries |-> entries]}
    ELSE UNION {IF p.err # "" THEN {[err |-> p.err, entries |-> {}]}
                ELSE DictOfItems(items, j + 1, SetEntry(entries, p.entry)) :
                p \in PairOf(items[j], j)}

\* "not initial"
Falsy(node) ==
    CASE node.t = "str" -> node.s = ""
      [] node.t = "num" -> node.n = 0
      [] node.t \in {"list", "tuple"} -> node.items = <<>>
      [] is_map(node) -> EntrySet(node) = {}
      [] OTHER -> FALSE

\* pyr.pmap(inst), as the maps it can give: the entries of a mapping; nothing of a
\* value that is false; else pyrsistent makes a dictionary of the value with dict(inst)
PmapOf(inst) ==
    CASE is_map(inst) ->
            {[err |-> "", entries |-> {Entry(e[1], e[2], <<e[1]>>) : e \in EntrySet(inst)}]}
      [] ~is_map(inst) /\ Falsy(inst) -> {[err |-> "", entries |-> {}]}
      [] inst.t \in {"list", "tuple"} /\ ~Falsy(inst) -> DictOfItems(inst.items, 1, {})
      [] inst.t = "str" /\ ~Falsy(inst) -> {[err |-> "ValueError", entries |-> {}]}
      [] OTHER -> {[err |-> "TypeError", entries |-> {}]}

\* the entries of the record m.set('_relpath', flnm), m being pyr.pmap(inst)
RecordOf(entries, flnm) == SetEntry(entries, Entry(StrNode("_relpath"), StrNode(flnm), <<>>))

\* a stored file: the instruction, which data_files holds, and the entries of its
\* record, which the data tree holds
Stored(inst, entries) == [inst |-> inst, rec |-> entries]

\* The walk of handle_file through the data tree.  'dat' is the value w.val; it is the
\* value at w.path of the data tree (w.id = 0) or of the instruction of heap[w.id], or
\* a value that is part of neither (w.id = -1).
Fail(w, e) == [w EXCEPT !.err = e]
Move(w, k, val) == [w EXCEPT !.path = IF w.id = -1 THEN <<>> ELSE Append(w.path, k), !.val = val]
Put(w, path, new) ==
    IF w.id = 0 THEN [w EXCEPT !.root = ReplaceAt(@, path, new)]
    ELSE [w EXCEPT !.heap[w.id].inst = ReplaceAt(@, path, new)]

\* "if k not in dat: dat[k] = {}" followed by "dat = dat[k]".  A dictionary takes the
\* key.  A persistent map, a file record included, takes no assignment and yields the
\* value of a key it has.  A list takes an index in its range only, a tuple takes no
\* assignment; a string, a number and a function take neither the test, the assignment
\* nor the index.
Descend(w, k) ==
    IF w.err # "" THEN w
    ELSE LET dat == w.val
         IN  CASE dat.t = "map" ->
                    IF ~Hashable(k) THEN Fail(w, "TypeError")
                    ELSE IF k \in FieldKeys(dat.fields)
                    THEN Move(w, k, FieldGet(dat.fields, k))
                    ELSE Move(Put(w, w.path, MapNode(Append(dat.fields, <<k, EmptyDict>>))),
                              k, EmptyDict)
               [] dat.t = "pmap" ->
                    IF ~Hashable(k) \/ k \notin KeysOf(dat) THEN Fail(w, "TypeError")
                    ELSE Move(w, k, ValueOf(dat, k))
               [] dat.t = "rec" ->
                    IF ~Hashable(k) \/ k \notin EntryKeys(w.heap[dat.n].rec)
                    THEN Fail(w, "TypeError")
                    ELSE Only({IF e.at = <<>>
                               THEN [w EXCEPT !.id = -1, !.path = <<>>, !.val = e.val]
                               ELSE [w EXCEPT !.id = dat.n, !.path = e.at,
                                              !.val = ValueAt(w.heap[dat.n].inst, e.at)] :
                               e \in {EntryOf(w.heap[dat.n].rec, k)}})
               [] dat.t = "list" ->
                    IF k.t # "num" THEN Fail(w, "TypeError")
                    ELSE IF k.n >= Len(dat.items) THEN Fail(w, "IndexError")
                    ELSE IF In(k, dat) = "yes" THEN Move(w, k, dat.items[k.n + 1])
                    ELSE Move(Put(w, Append(w.path, k), EmptyDict), k, EmptyDict)
               [] dat.t = "tuple" ->
                    IF In(k, dat) # "yes" \/ k.t # "num" THEN Fail(w, "TypeError")
                    ELSE IF k.n >= Len(dat.items) THEN Fail(w, "IndexError")
                    ELSE Move(w, k, dat.items[k.n + 1])
               [] OTHER -> Fail(w, "TypeError")

\* "all(h in inst for h in hrow)": the tests are made in the row's order and end at the
\* first that fails
RECURSIVE RowTest(_, _)
RowTest(row, inst) ==
    IF row = <<>> THEN "yes"
    ELSE Only({IF t = "yes" THEN RowTest(Tail(row), inst) ELSE t :
               t \in {In(Head(row), inst)}})

\* the nesting loop over the tags of a row (lines 290-295): "v = inst[h]" comes first
RECURSIVE WalkItems(_, _, _)
WalkItems(w, row, inst) ==
    IF row = <<>> \/ w.err # "" THEN w
    ELSE Only({IF v.err # "" THEN Fail(w, v.err)
               ELSE WalkItems(Descend(Descend(w, Head(row)), v.val), Tail(row), inst) :
               v \in {GetItem(inst, Head(row))}})

\* the loop over the rows (lines 287-296): the walk of the first row that matches; with
\* no matching row dat stays None
RECURSIVE ScanRows(_, _, _)
ScanRows(w, hier, inst) ==
    IF hier = <<>> THEN Fail(w, "none")
    ELSE Only({IF t = "yes" THEN WalkItems(w, Head(hier), inst)
               ELSE IF t = "no" THEN ScanRows(w, Tail(hier), inst)
               ELSE Fail(w, t) :
               t \in {RowTest(Head(hier), inst)}})

\* "k in known_filekeys"
IsFileKey(k) == k.t = "str" /\ k.s \in known_filekeys

\* the tags of a made-up hierarchy row: the keys of the items in the order they are
\* iterated in, file keys left out
RECURSIVE MadeUpRow(_)
MadeUpRow(items) ==
    IF items = <<>> THEN <<>>
    ELSE IF IsFileKey(Head(items)[1]) THEN MadeUpRow(Tail(items))
    ELSE <<Head(items)[1]>> \o MadeUpRow(Tail(items))

\* the nesting loop of the made-up hierarchy (lines 301-307) over the items of the
\* instruction in the order they are iterated in
RECURSIVE WalkMadeUp(_, _)
WalkMadeUp(w, items) ==
    IF items = <<>> \/ w.err # "" THEN w
    ELSE IF IsFileKey(Head(items)[1]) THEN WalkMadeUp(w, Tail(items))
    ELSE WalkMadeUp(Descend(Descend(w, Head(items)[1]), Head(items)[2]), Tail(items))

\* os.path.join of the names, as posixpath joins them
RECURSIVE JoinNames(_, _)
JoinNames(path, names) ==
    IF names = <<>> THEN path
    ELSE LET b == Head(names)
         IN  JoinNames(IF StartsWith(b, "/") THEN b
                       ELSE IF path = "" \/ EndsWith(path, "/") THEN path \o b
                       ELSE path \o "/" \o b,
                       Tail(names))
os_path_join(names) == JoinNames(Head(names), Tail(names))

ParseError(ps, e) == [ps EXCEPT !.err = e]
Walker(ps) == [err |-> "", root |-> ps.root, heap |-> ps.heap, id |-> 0, path |-> <<>>,
               val |-> ps.root]

\* the end of handle_file (lines 311-314), as the states it can leave: the file name is
\* the joined directory stack, the record pyr.pmap(inst).set('_relpath', flnm) goes
\* under the file name into the value the walk ended at, which has to be a dictionary,
\* and the instruction into the flat table
StoreFile(ps, w, hier2, inst) ==
    IF w.err # "" THEN {ParseError(ps, w.err)}
    ELSE IF ps.stack = <<>> THEN {ParseError(ps, "TypeError")}
    ELSE {IF m.err # "" THEN ParseError(ps, m.err)
          ELSE IF w.val.t # "map" THEN ParseError(ps, "TypeError")
          ELSE LET flnm == os_path_join(ps.stack)
                   id == Len(w.heap) + 1
                   dat == MapNode(SetField(w.val.fields, StrNode(flnm), RecordRef(id, flnm)))
                   heap == Append(w.heap, Stored(inst, RecordOf(m.entries, flnm)))
               IN  Only({[err |-> "",
                          stack |-> ps.stack,
                          root |-> stored.root,
                          heap |-> stored.heap,
                          files |-> (flnm :> id) @@ ps.files,
                          hier |-> hier2] :
                         stored \in {Put([w EXCEPT !.heap = heap], w.path, dat)}}) :
          m \in PmapOf(inst)}

\* handle_file applied to an instruction that is no tuple (lines 284-314): the walk of
\* the first row that matches; with no such row a row is made up of the items of the
\* instruction, in the order they are iterated in, and appended to the rows
HandleOne(ps, inst) ==
    UNION {IF w.err # "none" THEN StoreFile(ps, w, ps.hier, inst)
           ELSE IF ItemsOf(inst) = {} THEN {ParseError(ps, "AttributeError")}
           ELSE UNION {StoreFile(ps, WalkMadeUp(Walker(ps), o),
                                 Append(ps.hier, MadeUpRow(o)), inst) : o \in ItemsOf(inst)} :
           w \in {ScanRows(Walker(ps), ps.hier, inst)}}

\* handle_file, as the states it can leave: a tuple is handled member by member
RECURSIVE handle_file(_, _)
handle_file(ps, node) ==
    IF ps.err # "" THEN {ps}
    ELSE IF node.t = "tuple" THEN
        IF node.items = <<>> THEN {ps}
        ELSE UNION {handle_file(p, TupleNode(Tail(node.items))) :
                    p \in handle_file(ps, Head(node.items))}
    ELSE HandleOne(ps, node)

RECURSIVE handle_inst(_, _, _)
RECURSIVE DirLoop(_, _, _)

\* the loop of handle_dir over the members still to visit; dnm is the pending name
DirLoop(ps, items, dnm) ==
    IF ps.err # "" \/ items = <<>> THEN {ps}
    ELSE LET k == Head(items)
         IN  IF dnm # "" THEN UNION {DirLoop(p, Tail(items), "") : p \in handle_inst(ps, k, dnm)}
             ELSE IF k.t = "str" THEN DirLoop(ps, Tail(items), k.s)
             ELSE IF k.t # "tuple" \/ Len(k.items) # 2 THEN {ParseError(ps, "ValueError")}
             ELSE UNION {DirLoop(p, Tail(items), "") : p \in handle_inst(ps, k, "")}

handle_dir(ps, node) == DirLoop(ps, node.items, "")

\* handle_inst(inst, k): k is the name to push, "" standing for no name
handle_inst(ps, node, k) ==
    IF ps.err # "" THEN {ps}
    ELSE {IF done.err # "" THEN done
          ELSE IF k # "" THEN [done EXCEPT !.stack = SubSeq(done.stack, 1, Len(done.stack) - 1)]
          ELSE done :
          done \in LET pushed == IF k # "" THEN [ps EXCEPT !.stack = Append(ps.stack, k)]
                                ELSE ps
                   IN  IF is_map(node) THEN handle_file(pushed, node)
                       ELSE IF node.t \in {"list", "tuple"} THEN
                           IF Len(node.items) = 0 \/ ~is_map(node.items[1])
                           THEN handle_dir(pushed, node)
                           ELSE handle_file(pushed, node)
                       ELSE {ParseError(pushed, "ValueError")}}

\* the hierarchy argument: None, one row of tag names, or a list of rows
NoHierarchy == [given |-> FALSE, flat |-> FALSE, rows |-> <<>>]
OneRow(row) == [given |-> TRUE, flat |-> TRUE, rows |-> <<row>>]
Rows(rows) == [given |-> TRUE, flat |-> FALSE, rows |-> rows]

\* a row of tag names as the keys it is made of
TagsOf(row) == [i \in 1..Len(row) |-> StrNode(row[i])]

\* "hierarchies = hierarchy if hierarchy else []", one row of strings becoming [row]
Hierarchies(h) ==
    IF ~h.given \/ h.rows = <<>> \/ (h.flat /\ h.rows[1] = <<>>) THEN <<>>
    ELSE [i \in 1..Len(h.rows) |-> TagsOf(h.rows[i])]

\* a value as the parse returns it: each file record as the persistent map it is, its
\* values being the values the instruction holds when the parse ends
RECURSIVE Resolve(_, _)
Resolve(node, heap) ==
    CASE node.t = "rec" ->
            PmapNode({<<e.key, IF e.at = <<>> THEN e.val
                               ELSE Resolve(ValueAt(heap[node.n].inst, e.at), heap)>> :
                      e \in heap[node.n].rec})
      [] node.t = "map" ->
            MapNode([i \in 1..Len(node.fields) |->
                        <<node.fields[i][1], Resolve(node.fields[i][2], heap)>>])
      [] node.t = "pmap" ->
            PmapNode({<<e[1], Resolve(e[2], heap)>> : e \in node.entries})
      [] node.t \in {"list", "tuple"} ->
            [node EXCEPT !.items = [i \in 1..Len(node.items) |-> Resolve(node.items[i], heap)]]
      [] OTHER -> node

\* FileMap.parse_instructions(inst, hierarchy=h), as the results the call can have;
\* dirstack is the directory stack as the call leaves it, on return or when the
\* exception leaves handle_inst
parse_instructions(inst, h) ==
    {[err |-> ps.err,
      data_files |-> IF ps.err = "" THEN [f \in DOMAIN ps.files |->
                                             Resolve(ps.heap[ps.files[f]].inst, ps.heap)]
                     ELSE <<>>,
      data_tree |-> IF ps.err = "" THEN Resolve(ps.root, ps.heap) ELSE EmptyTree,
      dirstack |-> ps.stack] :
     ps \in handle_inst([err |-> "", stack |-> <<>>, root |-> EmptyTree, heap |-> <<>>,
                         files |-> <<>>, hier |-> Hierarchies(h)], inst, "")}

\* pimms.persist(x): a dictionary becomes a persistent map of its persisted values, a
\* list or a tuple the tuple of its persisted members; a persistent map, a string, a
\* number and a function are left as they are
RECURSIVE persist(_)
persist(node) ==
    CASE node.t = "map" ->
            PmapNode({<<node.fields[i][1], persist(node.fields[i][2])>> :
                      i \in 1..Len(node.fields)})
      [] node.t \in {"list", "tuple"} ->
            TupleNode([i \in 1..Len(node.items) |-> persist(node.items[i])])
      [] OTHER -> node

\* the parameter 'instructions' of a FileMap (lines 224-229)
FileMap_instructions(inst) ==
    IF ~is_map(inst) /\ inst.t # "list" THEN [err |-> "ValueError", val |-> inst]
    ELSE [err |-> "", val |-> persist(inst)]

\* the value '_parsed_instructions' of a FileMap (lines 336-338), as the values it can
\* have: the result of the parse, persisted.  The parameter 'data_hierarchy' is the
\* persisted hierarchy argument: tuples in the place of lists, read alike by the parse.
FileMap_parsed_instructions(inst, h) ==
    {IF pr.err # "" THEN pr
     ELSE [pr EXCEPT !.data_files = [f \in DOMAIN pr.data_files |-> persist(pr.data_files[f])],
                     !.data_tree = persist(pr.data_tree)] :
     pr \in parse_instructions(inst, h)}

(***************************************************************************)
(* Specification of parse_instructions: one instruction structure parsed   *)
(* with two hierarchy arguments.  The structure is given as it is written  *)
(* (dictionaries and lists) or as a FileMap gives it (persisted).          *)
(***************************************************************************)
\* the names of the files; "type" is also the name of a tag
DirNames == {"a", "b", "type"}
FileFields ==
    { StrFields(<< <<"hemi", "lh">>, <<"type", "prop">> >>),
      StrFields(<< <<"type", "prop">>, <<"hemi", "rh">>, <<"miss", "raise">> >>),
      StrFields(<< <<"hemi", "lh">> >>) }

\* the members one entry of a directory listing contributes: a name and a mapping, a
\* (name, mapping) pairing, a name and a nested listing, a name and a group of mappings,
\* a mapping with no name before it, a number
ListingEntries ==
    {<<StrNode(n), MapNode(f)>> : n \in DirNames, f \in FileFields}
    \cup {<<TupleNode(<<StrNode("a"), MapNode(f)>>)>> : f \in FileFields}
    \cup {<<StrNode("a"), ListNode(<<StrNode("b"), MapNode(f)>>)>> : f \in FileFields}
    \cup {<<StrNode("b"), TupleNode(<<MapNode(f), MapNode(g)>>)>> :
            f \in FileFields, g \in {h \in FileFields : Len(h) = 3}}
    \cup {<<MapNode(f)>> : f \in {h \in FileFields : Len(h) = 1}}
    \cup {<<NumNode>>}

RECURSIVE Listings(_)
Listings(n) ==
    IF n = 0 THEN {<<>>}
    ELSE LET shorter == Listings(n - 1)
         IN  shorter \cup {l \o e : l \in shorter, e \in ListingEntries}

\* the structures as they are written
WrittenSets == {ListNode(l) : l \in Listings(MaxEntries)} \cup {MapNode(f) : f \in FileFields}
\* the structures as a FileMap holds them
PersistedSets == {FileMap_instructions(i).val : i \in WrittenSets}
InstructionSets == WrittenSets \cup PersistedSets

HierarchyArgs ==
    { NoHierarchy,
      OneRow(<<"hemi", "type">>),
      Rows(<< <<"type", "hemi">> >>),
      Rows(<< <<"hemi">>, <<"type">> >>),
      Rows(<< <<"type">>, <<"hemi">> >>),
      Rows(<< <<"hemi", "type">>, <<"hemi">> >>) }

InitParse ==
    /\ instructions \in InstructionSets
    /\ hierarchy \in HierarchyArgs \X HierarchyArgs
    /\ parsed = <<NotParsed, NotParsed>>
    /\ DirIdle /\ LoadIdle /\ MapIdle

\* FileMap.parse_instructions(instructions, hierarchy[i])
Parse(i) ==
    /\ parsed[i] = NotParsed
    /\ \E pr \in parse_instructions(instructions, hierarchy[i]) :
            parsed' = [parsed EXCEPT ![i] = pr]
    /\ UNCHANGED <<instructions, hierarchy>>

NextParse ==
    /\ \E i \in 1..2 : Parse(i)
    /\ UNCHANGED <<dirVars, loadVars, mapVars>>

SpecParse == InitParse /\ [][NextParse]_vars

(***************************************************************************)
(* Properties of parse_instructions                                        *)
(***************************************************************************)
\* the rows as supplied by the caller
SuppliedRows(h) == IF h.given THEN h.rows ELSE <<>>

\* tag, value, tag, value, ... for the tags of a row in the row's order
RECURSIVE TagPath(_, _)
TagPath(row, inst) ==
    IF row = <<>> THEN <<>>
    ELSE <<StrNode(Head(row)), ValueOf(inst, StrNode(Head(row)))>> \o TagPath(Tail(row), inst)

\* the tags of a row are all fields of the mapping
HasTags(row, inst) ==
    is_map(inst) /\ \A k \in 1..Len(row) : StrNode(row[k]) \in KeysOf(inst)

\* some supplied row has all its tags among the fields
MatchesSupplied(h, inst) == \E i \in 1..Len(SuppliedRows(h)) : HasTags(SuppliedRows(h)[i], inst)

\* tree[k1][k2]...[kn] for mappings nested in one another
RECURSIVE Lookup(_, _)
Lookup(tree, keys) ==
    IF keys = <<>> THEN [found |-> TRUE, val |-> tree]
    ELSE IF ~is_map(tree) \/ Head(keys) \notin KeysOf(tree)
    THEN [found |-> FALSE, val |-> tree]
    ELSE Lookup(ValueOf(tree, Head(keys)), Tail(keys))

\* the file 'flnm' sits at tag/value/.../flnm for the first supplied row it matches
SitsUnderFirstMatch(tree, h, flnm, inst) ==
    \E i \in 1..Len(SuppliedRows(h)) :
        /\ HasTags(SuppliedRows(h)[i], inst)
        /\ \A j \in 1..(i - 1) : ~HasTags(SuppliedRows(h)[j], inst)
        /\ LET at == Append(TagPath(SuppliedRows(h)[i], inst), StrNode(flnm))
           IN  /\ Lookup(tree, at).found
               /\ Lookup(tree, at).val = LeafNode(inst, flnm)

BothParsed == parsed[1].err = "" /\ parsed[2].err = ""

AllMatchSupplied(i) ==
    \A f \in DOMAIN parsed[i].data_files : MatchesSupplied(hierarchy[i], parsed[i].data_files[f])

\* C10: one instruction set parsed with two hierarchy orderings, every instruction
\* matching a supplied row, gives flat tables with the same keys and instructions, and
\* trees where each file sits at tag/value/.../filename, the tags in the declared order
\* of the first supplied row whose tags are all present in the instruction.
C10_HierarchyOrdering ==
    (BothParsed /\ AllMatchSupplied(1) /\ AllMatchSupplied(2)) =>
        /\ parsed[1].data_files = parsed[2].data_files
        /\ \A i \in 1..2 : \A f \in DOMAIN parsed[i].data_files :
                SitsUnderFirstMatch(parsed[i].data_tree, hierarchy[i], f, parsed[i].data_files[f])

\* What a structure declares, read as section 4.2 of the specification reads it: a
\* mapping is a file under the join of the names enclosing it, wherever it stands; in a
\* listing a string names the segment of the instruction that follows it, a pairing
\* (name, instruction) does the same, and any other member is an error.
Declares(bad, files) == [bad |-> bad, files |-> files]
\* the join of the names enclosing a file
JoinOf(under) == IF under = <<>> THEN "" ELSE JoinSep(under, "/")
Both(first, second) == Declares(first.bad \/ second.bad, second.files @@ first.files)

RECURSIVE DeclaredIn(_, _)
RECURSIVE DeclaredInListing(_, _, _)
RECURSIVE DeclaredInGroup(_, _)

DeclaredInGroup(items, under) ==
    IF items = <<>> THEN Declares(FALSE, <<>>)
    ELSE Both(DeclaredIn(Head(items), under), DeclaredInGroup(Tail(items), under))

DeclaredInListing(items, under, dnm) ==
    IF items = <<>> THEN Declares(FALSE, <<>>)
    ELSE LET k == Head(items)
         IN  IF dnm # "" THEN Both(DeclaredIn(k, Append(under, dnm)),
                                   DeclaredInListing(Tail(items), under, ""))
             ELSE IF k.t = "str" THEN DeclaredInListing(Tail(items), under, k.s)
             ELSE IF is_map(k) \/ (k.t = "tuple" /\ Len(k.items) = 2)
                  THEN Both(DeclaredIn(k, under), DeclaredInListing(Tail(items), under, ""))
             ELSE Declares(TRUE, <<>>)

DeclaredIn(node, under) ==
    IF is_map(node) THEN Declares(FALSE, (JoinOf(under) :> node))
    ELSE IF node.t \in {"list", "tuple"} THEN
        IF Len(node.items) > 0 /\ is_map(node.items[1])
        THEN DeclaredInGroup(node.items, under)
        ELSE DeclaredInListing(node.items, under, "")
    ELSE Declares(TRUE, <<>>)

\* C11: parse_instructions fails exactly when some member of a listing is neither a
\* mapping, a string nor a (name, instruction) pairing; otherwise every mapping of the
\* structure, one at the top level and one standing directly in a listing included, is
\* in the flat table under the join of the names enclosing it, and the directory stack
\* is empty when the parse ends.
C11_FilesUnderEnclosingNames ==
    \A i \in DOMAIN parsed : parsed[i] # NotParsed =>
        LET declared == DeclaredIn(instructions, <<>>)
        IN  /\ parsed[i].err # "" <=> declared.bad
            /\ ~declared.bad =>
                    /\ parsed[i].data_files = declared.files
                    /\ parsed[i].dirstack = <<>>

(***************************************************************************)
(* FileMap._load                                                           *)
(***************************************************************************)
\* loaded values: None, or what a loader returned for a local path, possibly filtered,
\* or what a miss function returned for a file name
NoneVal == [none |-> TRUE, load |-> "", filt |-> "", miss |-> FALSE, path |-> <<>>]
LoadedBy(loader, path) == [none |-> FALSE, load |-> loader, filt |-> "", miss |-> FALSE, path |-> path]
FilteredBy(filter, v) == [v EXCEPT !.none = FALSE, !.filt = filter]
MissValue(flnm) == [none |-> FALSE, load |-> "", filt |-> "", miss |-> TRUE, path |-> flnm]

Value(v, invoked) == [exc |-> "", val |-> v, invoked |-> invoked]
Throws(e, invoked) == [exc |-> e, val |-> NoneVal, invoked |-> invoked]

\* the names _load can read: its parameters and local variables, and the module's names
LoadScope ==
    {"pathgen", "flnm", "loadfn", "argmaps", "kwargs", "fnm", "args", "filtfn", "dat", "miss"}
    \cup ModuleGlobals

MissSentinels == {"error", "raise", "exception"}

\* the try block of _load: the value of dat after it, whether 'args' got bound, and
\* the number of loader invocations
LoadTry(pathgen, flnm, args, env) ==
    IF ~pathgen.callable \/ ~env.resolves
    THEN [dat |-> NoneVal, argsBound |-> FALSE, invoked |-> 0]
    ELSE IF (args.load \/ args.filt) /\ "inst" \notin LoadScope
    THEN [dat |-> NoneVal, argsBound |-> TRUE, invoked |-> 0]
    ELSE IF env.loader = "raise"
    THEN [dat |-> NoneVal, argsBound |-> TRUE, invoked |-> 1]
    ELSE LET fnm == PathJoin(pathgen.root, flnm)
             dat == IF env.loader = "None" THEN NoneVal
                    ELSE LoadedBy(IF args.load THEN "inst.load" ELSE "loadfn", fnm)
         IN  IF ~args.filt THEN [dat |-> dat, argsBound |-> TRUE, invoked |-> 1]
             ELSE IF env.filter = "raise" THEN [dat |-> NoneVal, argsBound |-> TRUE, invoked |-> 1]
             ELSE [dat |-> FilteredBy("inst.filt", dat), argsBound |-> TRUE, invoked |-> 1]

\* the "elif ... elif ..." branches after the try block, which read the local 'miss'
LoadElif(dat, flnm, args, missBound, invoked) ==
    IF ~missBound THEN Throws("UnboundLocalError", invoked)
    ELSE IF args.miss \in MissSentinels THEN Throws("ValueError", invoked)
    ELSE IF args.miss # "None" THEN Value(MissValue(flnm), invoked)
    ELSE Value(dat, invoked)

\* FileMap._load(pathgen, flnm, loadfn, *argmaps): args is the merged map, as the keys
\* it has among load, filt and miss; env is the behaviour of the path generator, of the
\* loader and of the filter on this file
FileMap_load(pathgen, flnm, args, env) ==
    LET t == LoadTry(pathgen, flnm, args, env)
    IN  IF t.dat.none /\ ~t.argsBound THEN Throws("UnboundLocalError", t.invoked)
        ELSE IF t.dat.none /\ args.miss # "absent" THEN Value(t.dat, t.invoked)
        ELSE LoadElif(t.dat, flnm, args, FALSE, t.invoked)

(***************************************************************************)
(* Specification of _load called on its own                                *)
(***************************************************************************)
MissKinds == {"absent", "raise", "error", "None", "call"}
FmRoot == <<"root">>
FileNames == {<<"f1">>, <<"f2">>}
NotCalled == [exc |-> "unset", val |-> NoneVal, invoked |-> 0]

InitLoad ==
    /\ loadArgs \in [pathgen : [callable : BOOLEAN, root : {FmRoot}],
                     flnm : FileNames,
                     args : [load : BOOLEAN, filt : BOOLEAN, miss : MissKinds],
                     env : [resolves : BOOLEAN, loader : {"raise", "None", "value"},
                            filter : {"raise", "ok"}]]
    /\ loadArgs.env.filter = "raise" => loadArgs.args.filt
    /\ loadResult = NotCalled
    /\ DirIdle /\ ParseIdle /\ MapIdle

\* FileMap._load(...) is called with the chosen arguments
CallLoad ==
    /\ loadResult = NotCalled
    /\ loadResult' = FileMap_load(loadArgs.pathgen, loadArgs.flnm, loadArgs.args, loadArgs.env)
    /\ UNCHANGED loadArgs

NextLoad ==
    /\ CallLoad
    /\ UNCHANGED <<dirVars, parseVars, mapVars>>

SpecLoad == InitLoad /\ [][NextLoad]_vars

\* C1: when the path resolves and neither the loader nor the filter raises, _load
\* returns filter(loader(localPath, args), args), the loader being the instruction's
\* 'load' when it has one and the generic loader otherwise, the filter being the
\* instruction's 'filt' when it has one and the identity otherwise; no exception.
C1_LoadReturnsFilteredValue ==
    (/\ loadResult # NotCalled
     /\ loadArgs.pathgen.callable /\ loadArgs.env.resolves
     /\ loadArgs.env.loader = "value" /\ loadArgs.env.filter = "ok")
    => LET localPath == PathJoin(loadArgs.pathgen.root, loadArgs.flnm)
           loaded == LoadedBy(IF loadArgs.args.load THEN "inst.load" ELSE "loadfn", localPath)
       IN  /\ loadResult.exc = ""
           /\ loadResult.val = IF loadArgs.args.filt THEN FilteredBy("inst.filt", loaded) ELSE loaded

(***************************************************************************)
(* One FileMap instance: construction, data_files, data_tree               *)
(***************************************************************************)
\* the names the body of FileMap.valid_path can read
ValidPathScope == {"p", "s"} \cup ModuleGlobals

\* FileMap.valid_path(p) as the 'path' parameter uses it: the outcome of construction
valid_path(pathIsDir) ==
    IF pathIsDir THEN "ok"
    ELSE IF "_tarball_endings" \notin ValidPathScope THEN "NameError"
    ELSE "ValueError"

\* the names the body of FileMap.data_files can read
DataFilesScope ==
    {"path", "supplemental_paths", "path_parameters", "load_function", "meta_data",
     "_parsed_instructions", "spaths", "data_files", "data_tree", "load_via_pathgen", "res",
     "flnm", "inst", "pathnm"} \cup ModuleGlobals

\* the attributes of the class FileMap
FileMapAttrs ==
    {"valid_path", "load_function", "path", "instructions", "data_hierarchy",
     "supplemental_paths", "path_parameters", "parse_instructions", "_parsed_instructions",
     "_load", "_path_to_pathgen", "_parse_path", "data_files", "data_tree", "_tarball_endings"}

\* the merged arguments and the environment of the load of one declared file
ArgsOf(file) == [load |-> FALSE, filt |-> file.fail = "filter", miss |-> file.miss]
EnvOf(file) ==
    [resolves |-> file.fail # "resolve",
     loader |-> IF file.fail = "loader" THEN "raise" ELSE "value",
     filter |-> IF file.fail = "filter" THEN "raise" ELSE "ok"]

\* the value of filemap.data_files: the exception its body ends in, if any.  The path
\* generators are looked up first, then every file name is formatted by _parse_path,
\* then the entry of the file is stored.
DataFilesOf(files) ==
    IF "_path_to_pathgen" \notin DataFilesScope THEN "NameError"
    ELSE IF \E f \in DOMAIN files : ~files[f].tmplOK THEN "KeyError"
    ELSE IF "fn" \notin DataFilesScope THEN "NameError"
    ELSE ""

DataFilesNow == IF dataFilesMemo # "unset" THEN dataFilesMemo ELSE DataFilesOf(fmFiles)

\* an entry of data_files: _load curried with spaths[pathnm], the (directory, path
\* generator) pair, in the place of the path generator
LeafOf(f) ==
    FileMap_load([callable |-> FALSE, root |-> FmRoot], f, ArgsOf(fmFiles[f]), EnvOf(fmFiles[f]))

\* "FileMap._deduce_filename(...)": the attribute is looked up on the class
DeduceFilename == IF "_deduce_filename" \notin FileMapAttrs THEN "AttributeError" ELSE ""

\* len(v) of a value that has one
Length(v) ==
    CASE v.t = "str" -> Len(v.s)
      [] v.t \in {"list", "tuple"} -> Len(v.items)
      [] is_map(v) -> Cardinality(EntrySet(v))

\* visit_data(d) and visit_maps(m) of data_tree: the exceptions the visit can end in, ""
\* standing for a visit that builds its result.  The entries are visited in order and
\* the first exception ends the visit.
RECURSIVE visit_data(_)
RECURSIVE VisitEntries(_)
RECURSIVE visit_maps(_)
RECURSIVE VisitValues(_)
RECURSIVE VisitValue(_)

\* the dictionary comprehension of visit_data over the entries in this order
VisitEntries(entries) ==
    IF entries = <<>> THEN {""}
    ELSE LET outs == visit_maps(Head(entries)[2])
         IN  (outs \ {""}) \cup (IF "" \in outs THEN VisitEntries(Tail(entries)) ELSE {})

visit_data(d) ==
    IF ItemsOf(d) = {} THEN {"AttributeError"}
    ELSE UNION {VisitEntries(o) : o \in ItemsOf(d)}

\* the body of the loop of visit_maps for the value v (lines 427-432): len(v), then the
\* test of '_relpath' in the first value of v, then the file name deduced from the
\* first entry, or the visit of v
VisitValue(v) ==
    IF v.t \in {"num", "fn"} THEN {"TypeError"}
    ELSE IF Length(v) = 0 THEN visit_data(v)
    ELSE IF ItemsOf(v) = {} THEN {"AttributeError"}
    ELSE UNION {LET holds == In(StrNode("_relpath"), o[1][2])
                IN  IF holds = "yes" THEN {DeduceFilename}
                    ELSE IF holds = "no" THEN VisitEntries(o)
                    ELSE {holds} : o \in ItemsOf(v)}

\* the loop of visit_maps over the entries in this order; the body runs once for a key,
\* once for each member of a key that is a tuple
VisitValues(entries) ==
    IF entries = <<>> THEN {""}
    ELSE LET k == Head(entries)[1]
             outs == IF k.t = "tuple" /\ k.items = <<>> THEN {""}
                     ELSE VisitValue(Head(entries)[2])
         IN  (outs \ {""}) \cup (IF "" \in outs THEN VisitValues(Tail(entries)) ELSE {})

visit_maps(m) ==
    IF ItemsOf(m) = {} THEN {"AttributeError"}
    ELSE UNION {VisitValues(o) : o \in ItemsOf(m)}

\* the value of filemap.data_tree for a skeleton tree: the exceptions the evaluation
\* can end in.  df is the outcome of data_files, which is an argument of data_tree and
\* so is computed first.
data_tree(df, tree) == IF df # "" THEN {df} ELSE visit_data(tree)

\* a file name of the flat table as the path _load joins to the directory, and back
TokensOf(flnm) == IF StartsWith(flnm, "/") THEN <<"/", SubSeq(flnm, 2, Len(flnm))>> ELSE <<flnm>>
NameOf(f) == JoinSep(f, "")

\* the fields of the instruction of a declared file: its 'miss', a string or a
\* function, and its 'filt'
FieldsOfDecl(file) ==
    (IF file.miss = "absent" THEN <<>>
     ELSE << <<StrNode("miss"), IF file.miss = "call" THEN FunctionNode("miss")
                                ELSE StrNode(file.miss)>> >>)
    \o (IF file.fail = "filter" THEN << <<StrNode("filt"), FunctionNode("filt")>> >> ELSE <<>>)

\* the skeleton tree of files declared with no tag, as _parsed_instructions holds it:
\* every file record at the root of a persistent map
UntaggedTree(files) ==
    PmapNode({<<StrNode(NameOf(f)), LeafNode(MapNode(FieldsOfDecl(files[f])), NameOf(f))>> :
              f \in DOMAIN files})

\* the value of filemap.data_tree for files declared with no tag
DataTreeOf(files) == data_tree(DataFilesNow, UntaggedTree(files))

Access(via, f, out) == [via |-> via, file |-> f, exc |-> out.exc, val |-> out.val]

\* FileMap(path, instructions, ...)
Construct ==
    /\ constructed = "unset"
    /\ constructed' = valid_path(fmPathIsDir)
    /\ UNCHANGED <<fmPathIsDir, fmFiles, dataFilesMemo, leafMemo, loads, accesses>>

\* filemap.data_files[f]
AccessDataFiles(f) ==
    /\ constructed = "ok"
    /\ Len(accesses) < MaxAccesses
    /\ LET df == DataFilesNow
           out == IF df # "" THEN Throws(df, 0)
                  ELSE IF leafMemo[f] # NotCalled THEN [leafMemo[f] EXCEPT !.invoked = 0]
                  ELSE LeafOf(f)
       IN  /\ dataFilesMemo' = IF df = "" THEN df ELSE dataFilesMemo
           /\ leafMemo' = IF df = "" /\ out.exc = "" THEN [leafMemo EXCEPT ![f] = out] ELSE leafMemo
           /\ loads' = [loads EXCEPT ![f] = @ + out.invoked]
           /\ accesses' = Append(accesses, Access("data_files", f, out))
    /\ UNCHANGED <<fmPathIsDir, fmFiles, constructed>>

\* the leaf of filemap.data_tree that stands for the file f
AccessDataTree(f) ==
    /\ constructed = "ok"
    /\ Len(accesses) < MaxAccesses
    /\ \E dt \in DataTreeOf(fmFiles) :
       LET out == IF dt # "" THEN Throws(dt, 0)
                  ELSE IF leafMemo[f] # NotCalled THEN [leafMemo[f] EXCEPT !.invoked = 0]
                  ELSE LeafOf(f)
       IN  /\ dataFilesMemo' = IF DataFilesNow = "" THEN "" ELSE dataFilesMemo
           /\ leafMemo' = IF dt = "" /\ out.exc = "" THEN [leafMemo EXCEPT ![f] = out] ELSE leafMemo
           /\ loads' = [loads EXCEPT ![f] = @ + out.invoked]
           /\ accesses' = Append(accesses, Access("data_tree", f, out))
    /\ UNCHANGED <<fmPathIsDir, fmFiles, constructed>>

FileDecls == [tmplOK : BOOLEAN, miss : {"absent", "raise", "call"},
              fail : {"none", "resolve", "loader", "filter"}]

InitMap ==
    /\ fmPathIsDir \in BOOLEAN
    /\ fmFiles \in [FileNames -> FileDecls]
    /\ constructed = "unset"
    /\ dataFilesMemo = "unset"
    /\ leafMemo = [f \in FileNames |-> NotCalled]
    /\ loads = [f \in FileNames |-> 0]
    /\ accesses = <<>>
    /\ DirIdle /\ ParseIdle /\ LoadIdle

NextMap ==
    /\ \/ Construct
       \/ \E f \in FileNames : AccessDataFiles(f)
       \/ \E f \in FileNames : AccessDataTree(f)
    /\ UNCHANGED <<dirVars, parseVars, loadVars>>

SpecMap == InitMap /\ [][NextMap]_vars

(***************************************************************************)
(* Specification of the data tree: a FileMap on a directory whose          *)
(* instructions parse, every declared file loading correctly, and the      *)
(* leaves of its data_tree read one after the other                        *)
(***************************************************************************)
\* the 'miss' of a declared file: a string, or a function to call
MissOf(inst) ==
    IF ~is_map(inst) \/ StrNode("miss") \notin KeysOf(inst) THEN "absent"
    ELSE IF ValueOf(inst, StrNode("miss")).t = "str"
    THEN ValueOf(inst, StrNode("miss")).s
    ELSE "call"

\* the flat table as declared files that load correctly
Loadable(table) ==
    [f \in {TokensOf(k) : k \in DOMAIN table} |->
        [tmplOK |-> TRUE, miss |-> MissOf(table[NameOf(f)]), fail |-> "none"]]

\* the file records of a skeleton tree, each as the keys that lead to it; a record
\* is known by its '_relpath'
RECURSIVE LeavesUnder(_, _)
LeavesUnder(node, at) ==
    IF ~is_map(node) THEN {}
    ELSE IF StrNode("_relpath") \in KeysOf(node) THEN {at}
    ELSE UNION {LeavesUnder(e[2], Append(at, e[1])) : e \in EntrySet(node)}
FileLeaves(tree) == LeavesUnder(tree, <<>>)

\* the file name a file record holds
RelpathOf(record) == ValueOf(record, StrNode("_relpath")).s

\* "(flnm, inst) = next(six.iteritems(v))" where the first value of v holds '_relpath'
\* (lines 427-428): the file names that can come first
FirstFiles(v) == {o[1][1].s : o \in {i \in ItemsOf(v) : In(StrNode("_relpath"), i[1][2]) = "yes"}}

TreeAccess(at, f, out) ==
    [via |-> "data_tree", at |-> at, file |-> f, exc |-> out.exc, val |-> out.val]

\* the leaf of filemap.data_tree that stands for the file record at 'at' of the skeleton
\* tree, parsed[1] being filemap._parsed_instructions.  Past the visit, the leaf of a
\* tag value is bound to the entry of the node that is iterated first (line 428).
AccessTreeLeaf(at) ==
    /\ constructed = "ok"
    /\ Len(accesses) < MaxAccesses
    /\ at \in FileLeaves(parsed[1].data_tree)
    /\ \E dt \in data_tree(DataFilesNow, parsed[1].data_tree) :
       \E first \in FirstFiles(Lookup(parsed[1].data_tree, SubSeq(at, 1, Len(at) - 1)).val) :
         LET f == TokensOf(first)
             df == DataFilesNow
             out == IF dt # "" THEN Throws(dt, 0)
                    ELSE IF leafMemo[f] # NotCalled THEN [leafMemo[f] EXCEPT !.invoked = 0]
                    ELSE LeafOf(f)
         IN  /\ dataFilesMemo' = IF df = "" THEN "" ELSE dataFilesMemo
             /\ leafMemo' = IF dt = "" /\ out.exc = "" THEN [leafMemo EXCEPT ![f] = out]
                             ELSE leafMemo
             /\ loads' = IF out.invoked = 0 THEN loads ELSE [loads EXCEPT ![f] = @ + out.invoked]
             /\ accesses' = Append(accesses,
                    TreeAccess(at, TokensOf(RelpathOf(Lookup(parsed[1].data_tree, at).val)), out))
    /\ UNCHANGED <<instructions, hierarchy, parsed, fmPathIsDir, fmFiles, constructed>>

\* a FileMap on a directory: its parameter 'instructions' is persisted; its value
\* '_parsed_instructions' is a function of its parameters for the run, one of the
\* results the parse can have, and is the same at every access
InitTree ==
    /\ instructions \in PersistedSets
    /\ hierarchy \in {<<h>> : h \in HierarchyArgs}
    /\ parsed \in {<<pr>> : pr \in {p \in FileMap_parsed_instructions(instructions, hierarchy[1]) :
                                       p.err = ""}}
    /\ fmPathIsDir = TRUE
    /\ fmFiles = Loadable(parsed[1].data_files)
    /\ constructed = valid_path(fmPathIsDir)
    /\ dataFilesMemo = "unset"
    /\ leafMemo = [f \in DOMAIN fmFiles |-> NotCalled]
    /\ loads = [f \in DOMAIN fmFiles |-> 0]
    /\ accesses = <<>>
    /\ DirIdle /\ LoadIdle

NextTree ==
    /\ \E at \in FileLeaves(parsed[1].data_tree) : AccessTreeLeaf(at)
    /\ UNCHANGED <<dirVars, loadVars>>

SpecTree == InitTree /\ [][NextTree]_vars

(***************************************************************************)
(* Properties of the FileMap                                               *)
(***************************************************************************)
\* what the leaf of a correctly loading file yields
LoadedValueOf(f) == LoadedBy("loadfn", PathJoin(FmRoot, f))
LoadsCorrectly(f) == fmFiles[f].tmplOK /\ fmFiles[f].fail = "none"
LoadFails(f) == fmFiles[f].tmplOK /\ fmFiles[f].fail # "none"
Yields(a, v) == a.exc = "" /\ a.val = v

\* C2: the leaf of a file with no 'miss' whose load raises (in the path resolution, the
\* loader or the filter) yields None with no exception reaching the caller, and every
\* other leaf still yields the value it yields when that file loads correctly.
C2_FailedLoadYieldsNone ==
    \A i \in 1..Len(accesses) :
        LET a == accesses[i]
        IN  /\ (LoadFails(a.file) /\ fmFiles[a.file].miss = "absent") => Yields(a, NoneVal)
            /\ (/\ LoadsCorrectly(a.file)
                /\ \E g \in FileNames \ {a.file} : LoadFails(g) /\ fmFiles[g].miss = "absent")
               => Yields(a, LoadedValueOf(a.file))

\* C3: accessing the leaf of a file whose 'miss' is the raise sentinel and whose load
\* fails raises the missing-file error (a ValueError); the construction did not fail.
C3_RaiseOnMiss ==
    \A i \in 1..Len(accesses) :
        LET a == accesses[i]
        IN  (LoadFails(a.file) /\ fmFiles[a.file].miss \in MissSentinels)
            => (constructed = "ok" /\ a.exc = "ValueError")

\* C4: over any sequence of accesses the load of a file is performed at most once, and
\* the accesses of one correctly loading file, through data_files and through
\* data_tree, return the same memoized value.
C4_LoadedOnceAndShared ==
    /\ \A f \in DOMAIN loads : loads[f] <= 1
    /\ \A i \in 1..Len(accesses) : \A j \in (i + 1)..Len(accesses) :
        (/\ accesses[i].file = accesses[j].file
         /\ accesses[i].via # accesses[j].via
         /\ LoadsCorrectly(accesses[i].file)
         /\ \A g \in FileNames : fmFiles[g].tmplOK)
        => /\ Yields(accesses[i], LoadedValueOf(accesses[i].file))
           /\ Yields(accesses[j], LoadedValueOf(accesses[i].file))

\* C9: a file name template with a parameter that nothing supplies raises only at the
\* access of that file's leaf: the access of any other declared file, through
\* data_files or data_tree, succeeds and yields that file's value.
C9_TemplateErrorIsLocal ==
    \A i \in 1..Len(accesses) :
        LET a == accesses[i]
        IN  /\ (LoadsCorrectly(a.file) /\ \E g \in FileNames \ {a.file} : ~fmFiles[g].tmplOK)
               => Yields(a, LoadedValueOf(a.file))
            /\ ~fmFiles[a.file].tmplOK => a.exc = "KeyError"

\* C12: the result tree of data_tree is isomorphic to the skeleton tree: every file
\* record of the skeleton tree, each of several files under one chain of tag/value
\* pairs and a file in a node that has deeper tag levels included, has its leaf in the
\* result tree, and reading that leaf yields the loaded value of exactly that file.
C12_TreeLeafYieldsItsFile ==
    \A i \in 1..Len(accesses) :
        LET a == accesses[i]
        IN  a.via = "data_tree" => Yields(a, LoadedValueOf(a.file))

====
